---- MODULE Spec2Model ----
(***************************************************************************)
(* The instruction execution loop shared by the Ebox and the Fbox          *)
(* (AXP_Execution_Box, src/comutl/AXP_Execute_Box.c).  One worker thread   *)
(* per pipeline runs the loop on a counted queue that is shared with the   *)
(* other workers of the same box, with the issue stage (the producer),     *)
(* with the ROB (which may abort an instruction) and with the thread that  *)
(* shuts the CPU down.                                                     *)
(***************************************************************************)
EXTENDS Integers, Sequences, FiniteSets, TLC

(***************************************************************************)
(* Bounds of the model.                                                    *)
(***************************************************************************)
\* number of queue entries the issue stage allocates and enqueues in a run
MaxEntries == 2

(***************************************************************************)
(* AXP_PIPELINE: the values index pipeCond, pipelineStr and insPipelineStr.*)
(***************************************************************************)
PipelineNone == 0
EboxU0 == 1
EboxU1 == 2
EboxU0U1 == 3
EboxL0 == 4
EboxL1 == 5
EboxL0L1 == 6
EboxL0L1U0U1 == 7
FboxMul == 8
FboxOther == 9

\* static AXP_PIPELINE pipeCond[AXP_PIPE_OPTIONS][3]; row p is pipeCond[p + 1]
pipeCond ==
  << <<PipelineNone, PipelineNone, PipelineNone>>,
     <<EboxU0, EboxU0U1, EboxL0L1U0U1>>,
     <<EboxU1, EboxU0U1, EboxL0L1U0U1>>,
     <<PipelineNone, PipelineNone, PipelineNone>>,
     <<EboxL0, EboxL0L1, EboxL0L1U0U1>>,
     <<EboxL1, EboxL0L1, EboxL0L1U0U1>>,
     <<PipelineNone, PipelineNone, PipelineNone>>,
     <<PipelineNone, PipelineNone, PipelineNone>>,
     <<FboxMul, FboxMul, FboxMul>>,
     <<FboxOther, FboxOther, FboxOther>> >>

\* the table indexed one row too low (pipeCond[pipeline - 1])
CanExecuteRowBelow(pipeline, tag) ==
  ~ (  (tag # pipeCond[pipeline][1])
    /\ (tag # pipeCond[pipeline][2])
    /\ (tag # pipeCond[pipeline][3]) )

\* the negation of the test of lines 224-226: the worker of `pipeline' may
\* execute an entry whose pipeline field is `tag'
CanExecute(pipeline, tag) ==
  ~ (  (tag # pipeCond[pipeline + 1][1])
    /\ (tag # pipeCond[pipeline + 1][2])
    /\ (tag # pipeCond[pipeline + 1][3]) )

\* the pipelines a worker thread is created for (lines 98-104)
Pipelines == {EboxU0, EboxU1, EboxL0, EboxL1, FboxMul, FboxOther}

\* line 351: the test that selects the floating-point path
IsFbox(pipeline) == (pipeline = FboxMul) \/ (pipeline = FboxOther)

\* the tags the issue stage gives the entries it puts on the queue.  For one
\* thread alone: the three tags of its row and a tag of its box that is not in
\* the row.  For two threads: the tag both may execute.
TagsOf(ws) ==
  IF Cardinality(ws) > 1 THEN {EboxL0L1U0U1}
  ELSE LET w == CHOOSE p \in ws : TRUE IN
       {pipeCond[w + 1][1], pipeCond[w + 1][2], pipeCond[w + 1][3]}
         \cup (IF w = FboxMul THEN {FboxOther}
               ELSE IF w = FboxOther THEN {FboxMul}
               ELSE IF w \in {EboxU0, EboxU1} THEN {EboxL0L1}
               ELSE {EboxU0U1})

\* the returnEntry argument (lines 112-114, 129): each box returns an entry
\* to its own pool
returnEntry(pipeline) ==
  IF IsFbox(pipeline) THEN "AXP_ReturnFQEntry" ELSE "AXP_ReturnIQEntry"

\* the owner of a mutex that no thread holds (threads are named by pipeline)
Unowned == 0

\* the queue header: the walk of lines 183-251 ends when entry == queue
QH == 0
Entries == 1 .. MaxEntries
Nodes == 0 .. MaxEntries

VARIABLES
  workers,       \* the pipelines whose threads run the loop on this queue
  cpuState,      \* cpu->cpuState
  shut,          \* position of the thread that shuts the CPU down
  mutex,         \* owner of *mutex, the mutex of the queue
  robMutex,      \* owner of cpu->robMutex
  iBoxIPRMutex,  \* owner of cpu->iBoxIPRMutex
  fpe,           \* cpu->pCtx.fpe
  pc,            \* position of each worker in AXP_Execution_Box
  notMe,         \* the local notMe of each worker
  entry,         \* the local entry of each worker
  flink,         \* header.flink of the queue header and of every entry
  blink,         \* header.blink of the queue header and of every entry
  count,         \* queue->count
  ent,           \* the queue entries and the instruction each refers to
  nEnq,          \* entries enqueued so far
  toSignal,      \* the producer has enqueued and not yet signalled
  dispatched,    \* per entry, the calls of AXP_Dispatcher on its instruction
  returned,      \* per entry, the calls that handed it back to a pool
  iter,          \* per worker, what the current iteration has observed
  hist           \* per entry, whether it was claimed, and aborted before that

vars ==
  << workers, cpuState, shut, mutex, robMutex, iBoxIPRMutex, fpe, pc, notMe,
     entry, flink, blink, count, ent, nEnq, toSignal, dispatched, returned,
     iter, hist >>

envVars == << workers, cpuState, shut, fpe, nEnq, toSignal >>

\* (*returnEntry)(cpu, e) or AXP_ReturnIQEntry(cpu, e), called by w at `line'
ReturnCall(w, e, fn, line) ==
  returned' = [returned EXCEPT ![e] = Append(@, [fn |-> fn, line |-> line])]

\* regTrue: the entry the register check let through; fpeRead: the value of
\* fpe that was read; last: how the last iteration ended, if the thread has
\* not returned from pthread_cond_wait since ("stall": line 314, "empty":
\* line 275)
noIter == [regTrue |-> QH, fpeRead |-> -1, last |-> "none"]

(***************************************************************************)
(* The counted queue (AXP_COUNTED_QUEUE, AXP_CQUE_ENTRY).                  *)
(***************************************************************************)
\* AXP_CQUEP_EMPTY(queue)
AXP_CQUEP_EMPTY == count = 0

\* AXP_RemoveCountedQueue(entry): unlink e from its neighbours and count down;
\* the links of e itself are left as they were
AXP_RemoveCountedQueue(e) ==
  /\ flink' = [flink EXCEPT ![blink[e]] = flink[e]]
  /\ blink' = [blink EXCEPT ![flink[e]] = blink[e]]
  /\ count' = count - 1

\* the producer's insertion of e at the tail of the queue
AXP_InsertCountedQueue(e) ==
  /\ flink' = [flink EXCEPT ![e] = QH, ![blink[QH]] = e]
  /\ blink' = [blink EXCEPT ![e] = blink[QH], ![QH] = e]
  /\ count' = count + 1

\* the entries reached from the header by following flink
RECURSIVE Walk(_, _)
Walk(n, fuel) ==
  IF n = QH \/ fuel = 0 THEN << >> ELSE << n >> \o Walk(flink[n], fuel - 1)

Linked == Walk(flink[QH], MaxEntries)
IsLinked(e) == \E i \in 1 .. Len(Linked) : Linked[i] = e

(***************************************************************************)
(* pthread mutexes and the condition variable.                             *)
(***************************************************************************)
\* pthread_mutex_unlock(mutex) by thread w.  Unlocking a mutex the caller does
\* not hold is undefined: the call either fails and changes nothing or
\* releases the mutex whoever holds it.
MutexUnlock(w) ==
  IF mutex = w THEN mutex' = Unowned ELSE mutex' \in {mutex, Unowned}

Waiting == {w \in workers : pc[w] = "waiting"}

(***************************************************************************)
(* Initial state: the threads have just been created.                      *)
(***************************************************************************)
InitFor(configs) ==
  /\ workers \in configs
  /\ cpuState = "Run"
  /\ shut = "run"
  /\ mutex = Unowned
  /\ robMutex = Unowned
  /\ iBoxIPRMutex = Unowned
  /\ fpe = IF \E w \in workers : IsFbox(w) THEN 1 ELSE 0
  /\ pc = [w \in workers |-> "top"]
  /\ notMe = [w \in workers |-> TRUE]
  /\ entry = [w \in workers |-> QH]
  /\ flink = [n \in Nodes |-> QH]
  /\ blink = [n \in Nodes |-> QH]
  /\ count = 0
  /\ ent = [e \in Entries |->
              [pipeline |-> PipelineNone, processing |-> FALSE,
               state |-> "Retired", excRegMask |-> "NoException",
               regReady |-> FALSE]]
  /\ nEnq = 0
  /\ toSignal = FALSE
  /\ dispatched = [e \in Entries |-> 0]
  /\ returned = [e \in Entries |-> << >>]
  /\ iter = [w \in workers |-> noIter]
  /\ hist = [e \in Entries |-> [claimed |-> FALSE, abortedFirst |-> FALSE]]

\* the threads that share one queue: an upper and a lower pipeline of the
\* Ebox, or any one pipeline alone
Configs ==
  { {EboxU0, EboxL1},
    {EboxU0}, {EboxU1}, {EboxL0}, {EboxL1}, {FboxMul}, {FboxOther} }

Init == InitFor(Configs)

(***************************************************************************)
(* AXP_Execution_Box, one action per step of the loop.                     *)
(***************************************************************************)
\* line 140: the test of the outer while
Top(w) ==
  /\ w \in workers
  /\ pc[w] = "top"
  /\ pc' = [pc EXCEPT ![w] = IF cpuState # "ShuttingDown" THEN "lock" ELSE "exit"]
  /\ UNCHANGED << envVars, mutex, robMutex, iBoxIPRMutex, notMe, entry, flink,
                  blink, count, ent, dispatched, returned, iter, hist >>

\* WaitOrScan with the loop of lines 152-154 not testing notMe: the thread
\* waits only for an empty queue
WaitOrScanIgnoresNotMe(w, nm) ==
  IF AXP_CQUEP_EMPTY /\ cpuState # "ShuttingDown"
  THEN /\ mutex' = Unowned
       /\ pc' = [pc EXCEPT ![w] = "waiting"]
       /\ notMe' = [notMe EXCEPT ![w] = nm]
       /\ UNCHANGED entry
  ELSE /\ mutex' = w
       /\ notMe' = [notMe EXCEPT ![w] = FALSE]
       /\ IF cpuState # "ShuttingDown"
          THEN /\ pc' = [pc EXCEPT ![w] = "scan"]
               /\ entry' = [entry EXCEPT ![w] = flink[QH]]
          ELSE /\ pc' = [pc EXCEPT ![w] = "top"]
               /\ UNCHANGED entry

\* WaitOrScan without the test of line 172: the walk starts whatever
\* cpuState is
WaitOrScanNoShutdownTest(w, nm) ==
  IF (AXP_CQUEP_EMPTY /\ cpuState # "ShuttingDown") \/ nm
  THEN /\ mutex' = Unowned
       /\ pc' = [pc EXCEPT ![w] = "waiting"]
       /\ notMe' = [notMe EXCEPT ![w] = nm]
       /\ UNCHANGED entry
  ELSE /\ mutex' = w
       /\ notMe' = [notMe EXCEPT ![w] = FALSE]
       /\ pc' = [pc EXCEPT ![w] = "scan"]
       /\ entry' = [entry EXCEPT ![w] = flink[QH]]

\* lines 152-174 with the mutex held and notMe = nm: wait, or go on to the
\* test of cpuState and to the first entry of the queue
WaitOrScan(w, nm) ==
  IF (AXP_CQUEP_EMPTY /\ cpuState # "ShuttingDown") \/ nm
  THEN /\ mutex' = Unowned
       /\ pc' = [pc EXCEPT ![w] = "waiting"]
       /\ notMe' = [notMe EXCEPT ![w] = nm]
       /\ UNCHANGED entry
  ELSE /\ mutex' = w
       /\ notMe' = [notMe EXCEPT ![w] = FALSE]
       /\ IF cpuState # "ShuttingDown"
          THEN /\ pc' = [pc EXCEPT ![w] = "scan"]
               /\ entry' = [entry EXCEPT ![w] = flink[QH]]
          ELSE /\ pc' = [pc EXCEPT ![w] = "top"]
               /\ UNCHANGED entry

\* line 146: pthread_mutex_lock(mutex), then lines 152-174
Lock(w) ==
  /\ w \in workers
  /\ pc[w] = "lock"
  /\ mutex = Unowned
  /\ WaitOrScan(w, notMe[w])
  /\ UNCHANGED << envVars, robMutex, iBoxIPRMutex, flink, blink, count, ent,
                  dispatched, returned, iter, hist >>

\* lines 156-157: pthread_cond_wait returns with the mutex held again and
\* notMe is cleared, then lines 152-174
Relock(w) ==
  /\ w \in workers
  /\ pc[w] = "woken"
  /\ mutex = Unowned
  /\ WaitOrScan(w, FALSE)
  /\ iter' = [iter EXCEPT ![w].last = "none"]
  /\ UNCHANGED << envVars, robMutex, iBoxIPRMutex, flink, blink, count, ent,
                  dispatched, returned, hist >>

\* Scan without the pthread_mutex_unlock of line 282: the claimed entry is
\* taken on to the ROB with the queue mutex still held
ScanKeepsMutex(w) ==
  /\ w \in workers
  /\ pc[w] = "scan"
  /\ LET e == entry[w] IN
       IF e = QH
       THEN /\ notMe' = [notMe EXCEPT ![w] = TRUE]
            /\ MutexUnlock(w)
            /\ pc' = [pc EXCEPT ![w] = "top"]
            /\ iter' = [iter EXCEPT ![w].last = "empty"]
            /\ UNCHANGED << entry, ent, hist >>
       ELSE IF CanExecute(w, ent[e].pipeline) /\ ent[e].processing = FALSE
       THEN /\ ent' = [ent EXCEPT ![e].processing = TRUE]
            /\ hist' = [hist EXCEPT ![e].claimed = TRUE]
            /\ pc' = [pc EXCEPT ![w] = "robLock"]
            /\ UNCHANGED << notMe, entry, iter, mutex >>
       ELSE /\ entry' = [entry EXCEPT ![w] = flink[e]]
            /\ UNCHANGED << notMe, mutex, pc, ent, iter, hist >>
  /\ UNCHANGED << envVars, robMutex, iBoxIPRMutex, flink, blink, count,
                  dispatched, returned >>

\* lines 183-282: one turn of the walk.  At the header: notMe is set and the
\* mutex released (258-275).  At an entry this pipeline may execute and that
\* nobody is processing: it is claimed and the mutex released (241-244, 282).
\* Otherwise the walk moves to the next entry.
Scan(w) ==
  /\ w \in workers
  /\ pc[w] = "scan"
  /\ LET e == entry[w] IN
       IF e = QH
       THEN /\ notMe' = [notMe EXCEPT ![w] = TRUE]
            /\ MutexUnlock(w)
            /\ pc' = [pc EXCEPT ![w] = "top"]
            /\ iter' = [iter EXCEPT ![w].last = "empty"]
            /\ UNCHANGED << entry, ent, hist >>
       ELSE IF CanExecute(w, ent[e].pipeline) /\ ent[e].processing = FALSE
       THEN /\ ent' = [ent EXCEPT ![e].processing = TRUE]
            /\ hist' = [hist EXCEPT ![e].claimed = TRUE]
            /\ MutexUnlock(w)
            /\ pc' = [pc EXCEPT ![w] = "robLock"]
            /\ UNCHANGED << notMe, entry, iter >>
       ELSE /\ entry' = [entry EXCEPT ![w] = flink[e]]
            /\ UNCHANGED << notMe, mutex, pc, ent, iter, hist >>
  /\ UNCHANGED << envVars, robMutex, iBoxIPRMutex, flink, blink, count,
                  dispatched, returned >>

\* line 289: pthread_mutex_lock(&cpu->robMutex)
RobLock(w) ==
  /\ w \in workers
  /\ pc[w] = "robLock"
  /\ robMutex = Unowned
  /\ robMutex' = w
  /\ pc' = [pc EXCEPT ![w] = "robRead"]
  /\ UNCHANGED << envVars, mutex, iBoxIPRMutex, notMe, entry, flink, blink,
                  count, ent, dispatched, returned, iter, hist >>

\* lines 290-292: state = entry->ins->state; unlock; the test for Aborted
RobRead(w) ==
  /\ w \in workers
  /\ pc[w] = "robRead"
  /\ robMutex' = Unowned
  /\ pc' = [pc EXCEPT ![w] =
              IF ent[entry[w]].state = "Aborted" THEN "aborted" ELSE "regCheck"]
  /\ UNCHANGED << envVars, mutex, iBoxIPRMutex, notMe, entry, flink, blink,
                  count, ent, dispatched, returned, iter, hist >>

\* lines 300-303: the aborted instruction is removed from the queue, its
\* processing flag cleared and the entry handed to AXP_ReturnIQEntry
Aborted(w) ==
  /\ w \in workers
  /\ pc[w] = "aborted"
  /\ LET e == entry[w] IN
       /\ AXP_RemoveCountedQueue(e)
       /\ ent' = [ent EXCEPT ![e].processing = FALSE]
       /\ ReturnCall(w, e, "AXP_ReturnIQEntry", 302)
  /\ pc' = [pc EXCEPT ![w] = "top"]
  /\ entry' = [entry EXCEPT ![w] = QH]
  /\ iter' = [iter EXCEPT ![w] = noIter]
  /\ UNCHANGED << envVars, mutex, robMutex, iBoxIPRMutex, notMe, dispatched,
                  hist >>

\* RegCheck without the continue of line 314: after a false result the flag
\* is cleared and the entry dequeued all the same
RegCheckNoContinue(w) ==
  /\ w \in workers
  /\ pc[w] = "regCheck"
  /\ LET e == entry[w] IN
       IF ent[e].regReady
       THEN /\ pc' = [pc EXCEPT ![w] = "deqLock"]
            /\ iter' = [iter EXCEPT ![w].regTrue = e]
            /\ UNCHANGED << ent, entry >>
       ELSE /\ ent' = [ent EXCEPT ![e].processing = FALSE]
            /\ pc' = [pc EXCEPT ![w] = "deqLock"]
            /\ UNCHANGED << entry, iter >>
  /\ UNCHANGED << envVars, mutex, robMutex, iBoxIPRMutex, notMe, flink, blink,
                  count, dispatched, returned, hist >>

\* lines 311-315: (*regCheckEntry)(cpu, entry); when false the processing
\* flag is cleared and the loop continues
RegCheck(w) ==
  /\ w \in workers
  /\ pc[w] = "regCheck"
  /\ LET e == entry[w] IN
       IF ent[e].regReady
       THEN /\ pc' = [pc EXCEPT ![w] = "deqLock"]
            /\ iter' = [iter EXCEPT ![w].regTrue = e]
            /\ UNCHANGED << ent, entry >>
       ELSE /\ ent' = [ent EXCEPT ![e].processing = FALSE]
            /\ pc' = [pc EXCEPT ![w] = "top"]
            /\ entry' = [entry EXCEPT ![w] = QH]
            /\ iter' = [iter EXCEPT ![w] = [noIter EXCEPT !.last = "stall"]]
  /\ UNCHANGED << envVars, mutex, robMutex, iBoxIPRMutex, notMe, flink, blink,
                  count, dispatched, returned, hist >>

\* line 333: pthread_mutex_lock(mutex)
DeqLock(w) ==
  /\ w \in workers
  /\ pc[w] = "deqLock"
  /\ mutex = Unowned
  /\ mutex' = w
  /\ pc' = [pc EXCEPT ![w] = "dequeue"]
  /\ UNCHANGED << envVars, robMutex, iBoxIPRMutex, notMe, entry, flink, blink,
                  count, ent, dispatched, returned, iter, hist >>

\* lines 334-335: AXP_RemoveCountedQueue(entry); pthread_mutex_unlock(mutex)
Dequeue(w) ==
  /\ w \in workers
  /\ pc[w] = "dequeue"
  /\ AXP_RemoveCountedQueue(entry[w])
  /\ MutexUnlock(w)
  /\ pc' = [pc EXCEPT ![w] = "execLock"]
  /\ UNCHANGED << envVars, robMutex, iBoxIPRMutex, notMe, entry, ent,
                  dispatched, returned, iter, hist >>

\* line 340: pthread_mutex_lock(&cpu->robMutex)
ExecLock(w) ==
  /\ w \in workers
  /\ pc[w] = "execLock"
  /\ robMutex = Unowned
  /\ robMutex' = w
  /\ pc' = [pc EXCEPT ![w] = "setExec"]
  /\ UNCHANGED << envVars, mutex, iBoxIPRMutex, notMe, entry, flink, blink,
                  count, ent, dispatched, returned, iter, hist >>

\* lines 341-358: entry->ins->state = Executing; unlock; an Ebox pipeline
\* sets fpEnable and goes on to line 360, an Fbox pipeline to line 353
SetExecuting(w) ==
  /\ w \in workers
  /\ pc[w] = "setExec"
  /\ ent' = [ent EXCEPT ![entry[w]].state = "Executing"]
  /\ robMutex' = Unowned
  /\ pc' = [pc EXCEPT ![w] = IF IsFbox(w) THEN "iprLock" ELSE "dispatch"]
  /\ UNCHANGED << envVars, mutex, iBoxIPRMutex, notMe, entry, flink, blink,
                  count, dispatched, returned, iter, hist >>

\* line 353: pthread_mutex_lock(&cpu->iBoxIPRMutex)
IprLock(w) ==
  /\ w \in workers
  /\ pc[w] = "iprLock"
  /\ iBoxIPRMutex = Unowned
  /\ iBoxIPRMutex' = w
  /\ pc' = [pc EXCEPT ![w] = "iprRead"]
  /\ UNCHANGED << envVars, mutex, robMutex, notMe, entry, flink, blink, count,
                  ent, dispatched, returned, iter, hist >>

\* IprRead with the test of line 360 lost: the instruction is dispatched
\* whatever fpe was read
IprReadUnchecked(w) ==
  /\ w \in workers
  /\ pc[w] = "iprRead"
  /\ iBoxIPRMutex' = Unowned
  /\ iter' = [iter EXCEPT ![w].fpeRead = fpe]
  /\ pc' = [pc EXCEPT ![w] = "dispatch"]
  /\ UNCHANGED << envVars, mutex, robMutex, notMe, entry, flink, blink, count,
                  ent, dispatched, returned, hist >>

\* lines 354-360: fpEnable = cpu->pCtx.fpe == 1; unlock; the test of fpEnable
IprRead(w) ==
  /\ w \in workers
  /\ pc[w] = "iprRead"
  /\ iBoxIPRMutex' = Unowned
  /\ iter' = [iter EXCEPT ![w].fpeRead = fpe]
  /\ pc' = [pc EXCEPT ![w] = IF fpe = 1 THEN "dispatch" ELSE "faultLock"]
  /\ UNCHANGED << envVars, mutex, robMutex, notMe, entry, flink, blink, count,
                  ent, dispatched, returned, hist >>

\* AXP_Dispatcher(cpu, ins): executes the instruction and, with the ROB mutex,
\* moves it to WaitingRetirement
AXP_Dispatcher(w, e) ==
  /\ dispatched' = [dispatched EXCEPT ![e] = @ + 1]
  /\ ent' = [ent EXCEPT
               ![e].state = IF @ = "Executing" THEN "WaitingRetirement" ELSE @]

\* line 376: AXP_Dispatcher(cpu, entry->ins)
Dispatch(w) ==
  /\ w \in workers
  /\ pc[w] = "dispatch"
  /\ robMutex = Unowned
  /\ AXP_Dispatcher(w, entry[w])
  /\ pc' = [pc EXCEPT ![w] = "return"]
  /\ UNCHANGED << envVars, mutex, robMutex, iBoxIPRMutex, notMe, entry, flink,
                  blink, count, returned, iter, hist >>

\* line 398: pthread_mutex_lock(&cpu->robMutex)
FaultLock(w) ==
  /\ w \in workers
  /\ pc[w] = "faultLock"
  /\ robMutex = Unowned
  /\ robMutex' = w
  /\ pc' = [pc EXCEPT ![w] = "fault"]
  /\ UNCHANGED << envVars, mutex, iBoxIPRMutex, notMe, entry, flink, blink,
                  count, ent, dispatched, returned, iter, hist >>

\* lines 399-401: excRegMask = FloatingDisabledFault; state =
\* WaitingRetirement; unlock
Fault(w) ==
  /\ w \in workers
  /\ pc[w] = "fault"
  /\ ent' = [ent EXCEPT ![entry[w]].excRegMask = "FloatingDisabledFault",
                        ![entry[w]].state = "WaitingRetirement"]
  /\ robMutex' = Unowned
  /\ pc' = [pc EXCEPT ![w] = "return"]
  /\ UNCHANGED << envVars, mutex, iBoxIPRMutex, notMe, entry, flink, blink,
                  count, dispatched, returned, iter, hist >>

\* lines 407-408: the processing flag is cleared and the entry handed to
\* (*returnEntry); the iteration is over
Return(w) ==
  /\ w \in workers
  /\ pc[w] = "return"
  /\ ent' = [ent EXCEPT ![entry[w]].processing = FALSE]
  /\ ReturnCall(w, entry[w], returnEntry(w), 408)
  /\ pc' = [pc EXCEPT ![w] = "top"]
  /\ entry' = [entry EXCEPT ![w] = QH]
  /\ iter' = [iter EXCEPT ![w] = noIter]
  /\ UNCHANGED << envVars, mutex, robMutex, iBoxIPRMutex, notMe, flink, blink,
                  count, dispatched, hist >>

\* line 415: pthread_mutex_unlock(mutex), then the return of line 420
Exit(w) ==
  /\ w \in workers
  /\ pc[w] = "exit"
  /\ MutexUnlock(w)
  /\ pc' = [pc EXCEPT ![w] = "done"]
  /\ UNCHANGED << envVars, robMutex, iBoxIPRMutex, notMe, entry, flink, blink,
                  count, ent, dispatched, returned, iter, hist >>

(***************************************************************************)
(* The threads around the loop.                                            *)
(***************************************************************************)
workerVars == << mutex, robMutex, iBoxIPRMutex, pc, notMe, entry, flink,
                 blink, count, ent, dispatched, returned, iter, hist >>

\* the issue stage: with the mutex held, an entry in state Queued and not
\* being processed is put at the tail of the queue
Enqueue ==
  /\ nEnq < MaxEntries
  /\ ~ toSignal
  /\ mutex = Unowned
  /\ \E tag \in TagsOf(workers), ready \in BOOLEAN :
       ent' = [ent EXCEPT ![nEnq + 1] =
                 [pipeline |-> tag, processing |-> FALSE, state |-> "Queued",
                  excRegMask |-> "NoException", regReady |-> ready]]
  /\ AXP_InsertCountedQueue(nEnq + 1)
  /\ nEnq' = nEnq + 1
  /\ toSignal' = TRUE
  /\ UNCHANGED << workers, cpuState, shut, fpe, mutex, robMutex, iBoxIPRMutex,
                  pc, notMe, entry, dispatched, returned, iter, hist >>

\* the issue stage: pthread_cond_signal(cond) after the enqueue; one of the
\* waiting threads, if there is one, is woken
Signal ==
  /\ toSignal
  /\ toSignal' = FALSE
  /\ IF Waiting = {}
     THEN UNCHANGED pc
     ELSE \E w \in Waiting : pc' = [pc EXCEPT ![w] = "woken"]
  /\ UNCHANGED << workers, cpuState, shut, fpe, nEnq, mutex, robMutex,
                  iBoxIPRMutex, notMe, entry, flink, blink, count, ent,
                  dispatched, returned, iter, hist >>

\* pthread_cond_wait may return without a signal
SpuriousWake(w) ==
  /\ w \in workers
  /\ pc[w] = "waiting"
  /\ pc' = [pc EXCEPT ![w] = "woken"]
  /\ UNCHANGED << envVars, mutex, robMutex, iBoxIPRMutex, notMe, entry, flink,
                  blink, count, ent, dispatched, returned, iter, hist >>

\* the ROB: with the ROB mutex, an instruction in flight is aborted
Abort(e) ==
  /\ robMutex = Unowned
  /\ ent[e].state = "Queued"
  /\ ent' = [ent EXCEPT ![e].state = "Aborted"]
  /\ hist' = [hist EXCEPT ![e].abortedFirst = ~ hist[e].claimed]
  /\ UNCHANGED << envVars, mutex, robMutex, iBoxIPRMutex, pc, notMe, entry,
                  flink, blink, count, dispatched, returned, iter >>

\* an operand of the instruction is produced: its registers are ready
MakeReady(e) ==
  /\ ent[e].state = "Queued"
  /\ ~ ent[e].regReady
  /\ ent' = [ent EXCEPT ![e].regReady = TRUE]
  /\ UNCHANGED << envVars, mutex, robMutex, iBoxIPRMutex, pc, notMe, entry,
                  flink, blink, count, dispatched, returned, iter, hist >>

\* the Ibox: with the IPR mutex, floating point is enabled or disabled
SetFpe ==
  /\ iBoxIPRMutex = Unowned
  /\ \E w \in workers : IsFbox(w)
  /\ fpe' = 1 - fpe
  /\ UNCHANGED << workers, cpuState, shut, nEnq, toSignal, workerVars >>

\* the shutdown: cpu->cpuState = ShuttingDown
ShutdownStore ==
  /\ shut = "run"
  /\ cpuState' = "ShuttingDown"
  /\ shut' = "stored"
  /\ UNCHANGED << workers, fpe, nEnq, toSignal, workerVars >>

\* the shutdown: pthread_cond_broadcast(cond) after the store
ShutdownBroadcast ==
  /\ shut = "stored"
  /\ shut' = "done"
  /\ pc' = [w \in workers |-> IF pc[w] = "waiting" THEN "woken" ELSE pc[w]]
  /\ UNCHANGED << workers, cpuState, fpe, nEnq, toSignal, mutex, robMutex,
                  iBoxIPRMutex, notMe, entry, flink, blink, count, ent,
                  dispatched, returned, iter, hist >>

Environment ==
  \/ Enqueue \/ Signal
  \/ \E w \in Pipelines : SpuriousWake(w)
  \/ \E e \in Entries : Abort(e) \/ MakeReady(e)
  \/ SetFpe
  \/ ShutdownStore \/ ShutdownBroadcast

Next ==
  \/ \E w \in Pipelines :
       \/ Top(w) \/ Lock(w) \/ Relock(w) \/ Scan(w)
       \/ RobLock(w) \/ RobRead(w) \/ Aborted(w) \/ RegCheck(w)
       \/ DeqLock(w) \/ Dequeue(w) \/ ExecLock(w) \/ SetExecuting(w)
       \/ IprLock(w) \/ IprRead(w) \/ Dispatch(w) \/ FaultLock(w)
       \/ Fault(w) \/ Return(w) \/ Exit(w)
  \/ Environment

Spec == Init /\ [][Next]_vars

\* the runs in which the CPU is not shut down
NextRunning ==
  \/ \E w \in Pipelines :
       \/ Top(w) \/ Lock(w) \/ Relock(w) \/ Scan(w)
       \/ RobLock(w) \/ RobRead(w) \/ Aborted(w) \/ RegCheck(w)
       \/ DeqLock(w) \/ Dequeue(w) \/ ExecLock(w) \/ SetExecuting(w)
       \/ IprLock(w) \/ IprRead(w) \/ Dispatch(w) \/ FaultLock(w)
       \/ Fault(w) \/ Return(w)
  \/ Enqueue \/ Signal
  \/ \E w \in Pipelines : SpuriousWake(w)
  \/ \E e \in Entries : Abort(e) \/ MakeReady(e)
  \/ SetFpe

RunningSpec == Init /\ [][NextRunning]_vars

(***************************************************************************)
(* Scheduling: a thread that can take a step eventually takes one, the     *)
(* producer signals after each enqueue, the broadcast follows the store of *)
(* ShuttingDown, and operands are eventually produced.  Nothing obliges    *)
(* the producer to enqueue, the ROB to abort or a wait to end spuriously.  *)
(***************************************************************************)
WorkerStep(w) ==
  \/ Top(w) \/ Lock(w) \/ Relock(w) \/ Scan(w)
  \/ RobLock(w) \/ RobRead(w) \/ Aborted(w) \/ RegCheck(w)
  \/ DeqLock(w) \/ Dequeue(w) \/ ExecLock(w) \/ SetExecuting(w)
  \/ IprLock(w) \/ IprRead(w) \/ Dispatch(w) \/ FaultLock(w)
  \/ Fault(w) \/ Return(w) \/ Exit(w)

Fairness ==
  /\ \A w \in Pipelines : WF_vars(WorkerStep(w))
  /\ WF_vars(Signal)
  /\ WF_vars(ShutdownBroadcast)
  /\ \A e \in Entries : WF_vars(MakeReady(e))

\* one thread alone on its queue
LiveConfigs == {{EboxU1}, {FboxMul}}

FairSpec == InitFor(LiveConfigs) /\ [][Next]_vars /\ Fairness

(***************************************************************************)
(* Vocabulary of the properties.                                           *)
(***************************************************************************)
\* the positions between a worker's claim of an entry and the end of the
\* iteration
ClaimPcs ==
  {"robLock", "robRead", "aborted", "regCheck", "deqLock", "dequeue",
   "execLock", "setExec", "iprLock", "iprRead", "dispatch", "faultLock",
   "fault", "return"}

\* the positions after the register check has let the entry through
PastRegCheckPcs ==
  {"deqLock", "dequeue", "execLock", "setExec", "iprLock", "iprRead",
   "dispatch", "faultLock", "fault", "return"}

HoldsNoLock(w) == mutex # w /\ robMutex # w /\ iBoxIPRMutex # w

(***************************************************************************)
(* C1.  At most one execution: AXP_Dispatcher is called at most once on    *)
(* the instruction of any entry, whatever the workers, the producer and    *)
(* the ROB do.                                                             *)
(***************************************************************************)
C1_AtMostOneDispatch == \A e \in Entries : dispatched[e] <= 1

(***************************************************************************)
(* C2.  Eligibility: whenever a worker holds a claim on an entry, dequeues *)
(* it or dispatches it, the tag of the entry is one of the three tags of   *)
(* the worker's row of the compatibility table.                            *)
(***************************************************************************)
CompatibilityRow(w) ==
  CASE w = EboxU0 -> {EboxU0, EboxU0U1, EboxL0L1U0U1}
    [] w = EboxU1 -> {EboxU1, EboxU0U1, EboxL0L1U0U1}
    [] w = EboxL0 -> {EboxL0, EboxL0L1, EboxL0L1U0U1}
    [] w = EboxL1 -> {EboxL1, EboxL0L1, EboxL0L1U0U1}
    [] w = FboxMul -> {FboxMul}
    [] w = FboxOther -> {FboxOther}

C2_Eligibility ==
  \A w \in workers :
    pc[w] \in ClaimPcs =>
      /\ entry[w] # QH
      /\ ent[entry[w]].pipeline \in CompatibilityRow(w)

\* a worker has dispatched an entry whose tag is the shared tag of its row,
\* after the walk passed an entry of another tag
C2_Witness ==
  \E w \in workers, e \in Entries :
    /\ pc[w] = "return" /\ entry[w] # QH /\ entry[w] # e
    /\ dispatched[entry[w]] = 1
    /\ ent[entry[w]].pipeline = pipeCond[w + 1][2]
    /\ ent[e].state = "Queued" /\ ent[e].pipeline \notin CompatibilityRow(w)

(***************************************************************************)
(* C3.  Abort short-circuit: an entry whose instruction was aborted before *)
(* any worker claimed it is never dispatched, and once a worker has        *)
(* handled it, it is off the queue and the worker's return callback has    *)
(* been called for it exactly once.                                        *)
(***************************************************************************)
C3_AbortShortCircuit ==
  \A e \in Entries :
    hist[e].abortedFirst =>
      /\ dispatched[e] = 0
      /\ returned[e] # << >> =>
           /\ ~ IsLinked(e)
           /\ Len(returned[e]) = 1
           /\ \A w \in workers : returned[e][1].fn = returnEntry(w)

(***************************************************************************)
(* C4.  Register gating: a worker dequeues or dispatches an entry only     *)
(* after the register check returned true for that entry in the same       *)
(* iteration.                                                              *)
(***************************************************************************)
C4_RegisterGating ==
  \A w \in workers :
    pc[w] \in PastRegCheckPcs =>
      /\ entry[w] # QH
      /\ iter[w].regTrue = entry[w]

\* a worker is about to call AXP_Dispatcher on the entry whose register
\* check returned true in this iteration
C4_Witness ==
  \E w \in workers :
    /\ pc[w] = "dispatch"
    /\ iter[w].regTrue = entry[w]
    /\ ent[entry[w]].regReady

(***************************************************************************)
(* C5.  Floating-point gating: an Fbox worker calls the dispatcher only    *)
(* after it read fpe = 1 under the IPR mutex in this iteration; after      *)
(* reading another value it records FloatingDisabledFault, moves the       *)
(* instruction to WaitingRetirement and returns the entry undispatched.    *)
(* An Ebox worker never reads fpe and dispatches every entry it dequeued.  *)
(***************************************************************************)
C5_FloatingPointGating ==
  \A w \in workers :
    IF w \in {FboxMul, FboxOther}
    THEN /\ pc[w] = "iprRead" => iBoxIPRMutex = w
         /\ pc[w] = "dispatch" => iter[w].fpeRead = 1
         /\ pc[w] \in {"faultLock", "fault"} =>
              iter[w].fpeRead \in {0} /\ dispatched[entry[w]] = 0
         /\ pc[w] = "return" =>
              IF iter[w].fpeRead = 1
              THEN dispatched[entry[w]] = 1
              ELSE /\ dispatched[entry[w]] = 0
                   /\ ent[entry[w]].excRegMask = "FloatingDisabledFault"
                   /\ ent[entry[w]].state = "WaitingRetirement"
    ELSE /\ iter[w].fpeRead = -1
         /\ pc[w] \notin {"iprLock", "iprRead", "faultLock", "fault"}
         /\ pc[w] = "return" => dispatched[entry[w]] >= 1

\* an Fbox worker returns an entry it did not dispatch, having read fpe = 0
C5_Witness ==
  \E w \in workers :
    /\ w \in {FboxMul, FboxOther}
    /\ pc[w] = "return"
    /\ iter[w].fpeRead = 0
    /\ ent[entry[w]].excRegMask = "FloatingDisabledFault"

(***************************************************************************)
(* C6.  Clean shutdown: once ShuttingDown is stored and the condition      *)
(* variable broadcast, every worker eventually returns.                    *)
(***************************************************************************)
C6_CleanShutdown ==
  (shut = "done") ~> (\A w \in workers : pc[w] = "done")

(***************************************************************************)
(* C7.  No leak: in a run without shutdown, every entry that is enqueued   *)
(* is eventually handed to the worker's return callback, and never more    *)
(* than once.                                                              *)
(***************************************************************************)
ReturnCallbackCalls(e) ==
  {i \in 1 .. Len(returned[e]) :
     \A w \in workers : returned[e][i].fn = returnEntry(w)}

C7_NoLeak ==
  [](cpuState = "Run") =>
    \A e \in Entries :
      /\ (nEnq >= e) ~> (ReturnCallbackCalls(e) # {})
      /\ [](Cardinality(ReturnCallbackCalls(e)) <= 1)

(***************************************************************************)
(* C8.  Lock discipline: a worker never holds two of the queue mutex, the  *)
(* ROB mutex and the IPR mutex, and holds none of them when it calls the   *)
(* register check, the dispatcher or an entry-return function.             *)
(***************************************************************************)
C8_LockDiscipline ==
  \A w \in workers :
    /\ ~ (mutex = w /\ robMutex = w)
    /\ ~ (mutex = w /\ iBoxIPRMutex = w)
    /\ ~ (robMutex = w /\ iBoxIPRMutex = w)
    /\ pc[w] \in {"regCheck", "dispatch", "return", "aborted"} => HoldsNoLock(w)

\* a worker reads the state of the entry it claimed, holding the ROB mutex,
\* while the other worker holds the queue mutex
C8_Witness ==
  \E w \in workers, v \in workers :
    /\ w # v
    /\ pc[w] = "robRead" /\ robMutex = w
    /\ mutex = v

(***************************************************************************)
(* C9.  Balanced use of the queue mutex at return: a worker that leaves    *)
(* the loop holds the queue mutex when it releases it at line 415.         *)
(***************************************************************************)
C9_BalancedUnlock == \A w \in workers : pc[w] = "exit" => mutex = w

(***************************************************************************)
(* C10.  Queue mutation under the queue mutex: a worker walks the queue    *)
(* and removes an entry from it, on the aborted path as on the normal      *)
(* path, only while it holds the queue mutex.                              *)
(***************************************************************************)
C10_QueueMutationUnderMutex ==
  \A w \in workers : pc[w] \in {"scan", "dequeue", "aborted"} => mutex = w

(***************************************************************************)
(* C11.  Claim flag guarded by the queue mutex: a worker reads and writes  *)
(* the processing flag of an entry that is linked in the queue (the test   *)
(* and the claim of the walk, the clear after a false register check) only *)
(* while it holds the queue mutex.                                         *)
(***************************************************************************)
C11_ClaimFlagUnderMutex ==
  \A w \in workers :
    /\ (pc[w] = "scan" /\ entry[w] # QH) => mutex = w
    /\ (pc[w] = "regCheck" /\ ~ ent[entry[w]].regReady /\ IsLinked(entry[w]))
         => mutex = w

(***************************************************************************)
(* C12.  Exclusive claim (I1): every entry that is linked in the queue     *)
(* with its processing flag set has exactly one worker between its claim   *)
(* of the entry and its release of it, and leaves the queue only by a step *)
(* of that worker; a worker that waits or has returned claims nothing.     *)
(***************************************************************************)
Claimants(e) == {w \in workers : pc[w] \in ClaimPcs /\ entry[w] = e}

C12_ExclusiveClaim ==
  /\ [](\A e \in Entries :
          (IsLinked(e) /\ ent[e].processing) => Cardinality(Claimants(e)) = 1)
  /\ [](\A w \in workers :
          pc[w] \in {"waiting", "woken", "done"} => Claimants(entry[w]) = {})
  /\ [][\A e \in Entries :
          (IsLinked(e) /\ ent[e].processing /\ ~ IsLinked(e)') =>
            \E w \in Claimants(e) : pc[w] \in {"dequeue", "aborted"}
                                      /\ pc'[w] # pc[w]]_vars

(***************************************************************************)
(* C13.  Worker state transitions: the only changes a worker makes to the  *)
(* state of an instruction are Queued -> Executing and Executing ->        *)
(* WaitingRetirement; Executing and WaitingRetirement are never written    *)
(* over a state that is Aborted at the moment of the write.                *)
(***************************************************************************)
C13_WorkerTransitions ==
  [][\A e \in Entries :
       (ent'[e].state # ent[e].state
          /\ ent'[e].state \in {"Executing", "WaitingRetirement"})
       => << ent[e].state, ent'[e].state >> \in
            { << "Queued", "Executing" >>,
              << "Executing", "WaitingRetirement" >> }]_vars

(***************************************************************************)
(* C14.  Executing only after dequeue (I3): an entry whose instruction is  *)
(* in state Executing or WaitingRetirement is not linked in the queue.     *)
(***************************************************************************)
C14_ExecutingOffQueue ==
  \A e \in Entries :
    ent[e].state \in {"Executing", "WaitingRetirement"} => ~ IsLinked(e)

(***************************************************************************)
(* C15.  No lost wake-up: in a run without shutdown, an entry that is      *)
(* enqueued and signalled with its registers ready and a tag that a        *)
(* running worker may execute is eventually dispatched (unless the ROB     *)
(* aborts it or floating point is disabled), wherever the worker was in    *)
(* its loop at the enqueue, and without another signal.                    *)
(***************************************************************************)
Eligible(e) == \E w \in workers : CanExecute(w, ent[e].pipeline)

Handled(e) ==
  \/ dispatched[e] >= 1
  \/ ent[e].state = "Aborted"
  \/ ent[e].excRegMask = "FloatingDisabledFault"

C15_NoLostWakeup ==
  [](cpuState = "Run") =>
    \A e \in Entries :
      (nEnq = e /\ toSignal /\ Eligible(e) /\ ent[e].regReady) ~> Handled(e)

(***************************************************************************)
(* C16.  Register stall waits for the next wake: after the register check  *)
(* returned false for its entry, a worker walks the queue or holds a claim *)
(* again only after it has returned from a wait on the condition variable. *)
(***************************************************************************)
C16_StallWaitsForWake ==
  \A w \in workers :
    pc[w] \in {"scan"} \cup ClaimPcs => iter[w].last # "stall"

(***************************************************************************)
(* C17.  Register stall leaves the entry in place: the step in which the   *)
(* register check returns false finds the entry linked, never dispatched   *)
(* and never returned, and changes neither the order nor the count of the  *)
(* queue, nor the state or the excRegMask of the instruction, nor the      *)
(* records of dispatch and return; it leaves the processing flag false.    *)
(***************************************************************************)
C17_StallLeavesEntry ==
  [][\A w \in workers :
       (pc[w] = "regCheck" /\ pc'[w] = "top") =>
         LET e == entry[w] IN
           /\ IsLinked(e) /\ Linked' = Linked /\ count' = count
           /\ ~ ent'[e].processing
           /\ ent'[e].state = ent[e].state
           /\ ent'[e].excRegMask = ent[e].excRegMask
           /\ dispatched[e] = 0 /\ dispatched' = dispatched
           /\ returned[e] = << >> /\ returned' = returned]_vars

(***************************************************************************)
(* C18.  Suppression after an empty-handed walk: a walk that ends at the   *)
(* header sets notMe and releases the queue mutex, and the worker neither  *)
(* walks the queue nor holds a claim again before it has returned from a   *)
(* wait on the condition variable; a walk starts with notMe cleared.       *)
(***************************************************************************)
C18_Suppression ==
  \A w \in workers :
    /\ iter[w].last = "empty" => (notMe[w] /\ mutex # w)
    /\ pc[w] \in {"scan"} \cup ClaimPcs => iter[w].last # "empty"
    /\ pc[w] = "scan" => ~ notMe[w]

\* a worker waits after a walk that claimed nothing although an entry that
\* nobody is processing is linked in the queue
C18_Witness ==
  \E w \in workers, e \in Entries :
    /\ pc[w] = "waiting" /\ iter[w].last = "empty" /\ notMe[w]
    /\ IsLinked(e) /\ ~ ent[e].processing /\ ~ AXP_CQUEP_EMPTY

(***************************************************************************)
(* C19.  FIFO claim order: when a worker claims an entry, the entry is in  *)
(* the queue and no entry before it in queue order is both executable by   *)
(* the worker and unclaimed; the walk changes no entry that it passes.     *)
(***************************************************************************)
Claimable(w, e) == CanExecute(w, ent[e].pipeline) /\ ~ ent[e].processing

C19_FifoClaim ==
  [][\A w \in workers :
       /\ (pc[w] = "scan" /\ pc'[w] = "robLock") =>
            \E i \in 1 .. Len(Linked) :
              /\ Linked[i] = entry[w]
              /\ \A j \in 1 .. (i - 1) : ~ Claimable(w, Linked[j])
       /\ (pc[w] = "scan" /\ pc'[w] = "scan" /\ entry'[w] # entry[w]) =>
            (ent' = ent /\ flink' = flink /\ blink' = blink)]_vars

(***************************************************************************)
(* C20.  Shutdown with pending work: no walk of the queue starts once      *)
(* ShuttingDown is stored, and once every worker is at or before its test  *)
(* of cpuState, or has returned, each entry that is linked and unclaimed   *)
(* stays linked and unclaimed, is neither dispatched nor returned, and     *)
(* keeps its state unless the ROB aborts it.                               *)
(***************************************************************************)
Observing(w) ==
  cpuState = "ShuttingDown"
    /\ pc[w] \in {"top", "lock", "waiting", "woken", "exit", "done"}

C20_ShutdownLeavesQueue ==
  [][/\ \A w \in workers :
          (cpuState = "ShuttingDown" /\ pc'[w] = "scan") => pc[w] = "scan"
     /\ (\A w \in workers : Observing(w)) =>
          \A e \in Entries :
            (IsLinked(e) /\ ~ ent[e].processing) =>
              /\ IsLinked(e)' /\ ~ ent'[e].processing
              /\ ent'[e].state \in {ent[e].state, "Aborted"}
              /\ dispatched'[e] = dispatched[e]
              /\ returned'[e] = returned[e]]_vars

\* every worker has returned after the broadcast and two entries that a
\* worker could have executed are still queued, unclaimed
C20_Witness ==
  /\ shut = "done"
  /\ \A w \in workers : pc[w] = "done"
  /\ count = 2
  /\ \A e \in Entries :
       /\ IsLinked(e) /\ ~ ent[e].processing /\ ent[e].state = "Queued"
       /\ Eligible(e) /\ ent[e].regReady /\ dispatched[e] = 0
       /\ returned[e] = << >>

====
